---- MODULE Spec2Model ----
(***************************************************************************)
(* Model of arlon's repository-publishing pipeline                         *)
(* (cmd/cluster/cluster.go: DeployToGit, copyManifests, getInlineBundles,  *)
(* copyInlineBundles).                                                     *)
(*                                                                         *)
(* Strings that the code parses or compares character by character (the    *)
(* repository URL, the profile's comma-separated "bundles" value) are      *)
(* sequences of one-character strings.  Paths are sequences of path        *)
(* components.  File contents are sequences of bytes/chunks.               *)
(***************************************************************************)
EXTENDS Integers, Sequences, FiniteSets, TLC

VARIABLES
    repoSecrets,    \* argocd namespace: the listed repository secrets, in list order
    configMaps,     \* arlon namespace: config maps by name
    bundleSecrets,  \* arlon namespace: bundle secrets by name
    remote,         \* the remote branch: the sequence of trees of its commits, head last
    fs,             \* local directories: the repository cloned into each
    args,           \* per invocation: the arguments of DeployToGit
    pc,             \* per invocation: the statement DeployToGit is at
    creds,          \* per invocation: local variable creds
    inlineBundles,  \* per invocation: local variable inlineBundles
    tmpDir,         \* per invocation: local variable tmpDir
    changed,        \* per invocation: local variable changed
    result,         \* per invocation: the value DeployToGit returned
    ops,            \* per invocation: history of the external operations it performed
    failed,         \* per invocation: history of the steps that reported a failure
    clusterSpecs,   \* arlon namespace: cluster-spec config maps by name
    rootArgs,       \* the arguments of the ConstructRootApp call
    rootApp         \* what the ConstructRootApp call returned

vars == <<repoSecrets, configMaps, bundleSecrets, remote, fs, args, pc, creds,
          inlineBundles, tmpDir, changed, result, ops, failed,
          clusterSpecs, rootArgs, rootApp>>

stores == <<repoSecrets, configMaps, bundleSecrets>>

rootVars == <<clusterSpecs, rootArgs, rootApp>>

-----------------------------------------------------------------------------
(* Bounds of the model *)

\* longest list of repository secrets the credential store returns
MaxSecrets == 2
\* longest "bundles" value of a profile, in characters
MaxDeclLen == 5

\* the DeployToGit invocations of a behaviour
Procs == {1, 2}

-----------------------------------------------------------------------------
(* Values *)

\* repository URLs: the target and two near misses (trailing slash, letter case)
UrlPlain == <<"g", "/", "r">>
UrlSlash == <<"g", "/", "r", "/">>
UrlUpper == <<"G", "/", "r">>
Urls == {UrlPlain, UrlSlash, UrlUpper}

Usernames == {"u1", "u2"}
PasswordOf(u) == IF u = "u1" THEN "pw1" ELSE "pw2"

\* the repository secrets the store may hold (Data["url"], ["username"], ["password"])
SecretRecords ==
    {[url |-> u, username |-> n, password |-> PasswordOf(n)] : u \in Urls, n \in Usernames}

\* characters of a profile's "bundles" value
DeclChars == {"a", "b", ","}
\* the names under which the arlon namespace may hold a bundle secret
BundleNames == {"a", "b"}
ProfileNames == {"p1"}
ClusterNames == {"c1"}

\* a Go []byte: the nil slice, or a slice holding bytes (possibly none)
NilBytes == [isNil |-> TRUE, bytes |-> <<>>]
Bytes(b) == [isNil |-> FALSE, bytes |-> b]
\* Data["data"] of a bundle secret: key absent, present with zero bytes, present
Payloads == {NilBytes, Bytes(<<>>), Bytes(<<"X">>)}

\* a Get on a name the store does not hold
NoConfigMap == [found |-> FALSE, arlonType |-> "", bundles |-> <<>>]
NoSecret == [found |-> FALSE, bundleType |-> "", data |-> NilBytes]

\* *RepoCreds: nil, or the address of a record
NoCreds == [isNil |-> TRUE, Url |-> <<>>, Username |-> "", Password |-> ""]

RECURSIVE SeqsUpTo(_, _)
SeqsUpTo(S, n) ==
    IF n = 0 THEN {<<>>}
    ELSE LET shorter == SeqsUpTo(S, n - 1)
         IN  shorter \cup {Append(s, x) : s \in {t \in shorter : Len(t) = n - 1}, x \in S}

RECURSIVE Str(_)
\* the Go string of a sequence of characters
Str(s) == IF s = <<>> THEN "" ELSE Head(s) \o Str(Tail(s))

-----------------------------------------------------------------------------
(* Trees: a working tree or the tree of a commit, path -> content *)

EmptyTree == <<>>

\* Filesystem.Create (truncate or create) followed by io.Copy of data
WriteFileAppend(tree, path, data) ==
    [q \in DOMAIN tree \cup {path} |->
        IF q = path
        THEN (IF path \in DOMAIN tree THEN tree[path] ELSE <<>>) \o data
        ELSE tree[q]]

WriteFile(tree, path, data) ==
    [q \in DOMAIN tree \cup {path} |-> IF q = path THEN data ELSE tree[q]]

\* path.Join of cleaned paths: the components of a followed by those of b
PathJoin(a, b) == a \o b

RECURSIVE PathStr(_)
\* the Go string of a path: its components separated by "/"
PathStr(path) ==
    IF path = <<>> THEN ""
    ELSE IF Len(path) = 1 THEN path[1]
    ELSE path[1] \o "/" \o PathStr(Tail(path))

-----------------------------------------------------------------------------
(* Credential lookup: DeployToGit, the loop over secrets.Items *)

\* a comparison that ignores letter case and one trailing slash
LowerChar(c) == IF c = "G" THEN "g" ELSE IF c = "R" THEN "r" ELSE c
Normalize(u) ==
    LET low == [i \in 1..Len(u) |-> LowerChar(u[i])]
    IN  IF Len(low) > 0 /\ low[Len(low)] = "/" THEN SubSeq(low, 1, Len(low) - 1) ELSE low
UrlMatchesNormalized(repoUrl, secretUrl) == Normalize(repoUrl) = Normalize(secretUrl)

\* strings.Compare(repoUrl, string(repoSecret.Data["url"])) == 0
UrlMatches(repoUrl, secretUrl) == repoUrl = secretUrl

RECURSIVE FindCreds(_, _)
\* the loop: the first matching secret, in list order, or nil
FindCreds(items, repoUrl) ==
    IF items = <<>> THEN NoCreds
    ELSE IF UrlMatches(repoUrl, Head(items).url)
         THEN [isNil |-> FALSE, Url |-> Head(items).url,
               Username |-> Head(items).username, Password |-> Head(items).password]
         ELSE FindCreds(Tail(items), repoUrl)

-----------------------------------------------------------------------------
(* getInlineBundles *)

RECURSIVE SplitFrom(_, _, _)
\* strings.Split(s, sep), sep one character; cur is the piece being read
SplitFrom(s, sep, cur) ==
    IF s = <<>> THEN <<Str(cur)>>
    ELSE IF Head(s) = sep THEN <<Str(cur)>> \o SplitFrom(Tail(s), sep, <<>>)
    ELSE SplitFrom(Tail(s), sep, Append(cur, Head(s)))

Split(s, sep) == SplitFrom(s, sep, <<>>)

\* configMapsApi.Get(profileName) and secretsApi.Get(bundleName)
ConfigMapGet(cms, name) == IF name \in DOMAIN cms THEN cms[name] ELSE NoConfigMap
SecretGet(secrs, name) == IF name \in DOMAIN secrs THEN secrs[name] ELSE NoSecret

\* the result of getInlineBundles: its two results and the Gets it issued
GibResult(bundles, err, gets) == [inlineBundles |-> bundles, err |-> err, gets |-> gets]

\* a bundle secret is copied when Labels["bundle-type"] is "inline"
IsInlineAlways(secr) == TRUE

IsInlineUnlessExternal(secr) == secr.bundleType # "external"

IsInline(secr) == secr.bundleType = "inline"

\* return nil, fmt.Errorf("failed to get bundle secret ..."): the bundles
\* collected so far are dropped
BundleErrorPartial(acc, gets) == GibResult(acc, "BundleNotFound", gets)

BundleError(acc, gets) == GibResult(<<>>, "BundleNotFound", gets)

RECURSIVE CollectBundles(_, _, _, _)
\* the loop over bundleItems; acc is inlineBundles so far, gets the Gets so far
CollectBundles(bundleItems, secrs, acc, gets) ==
    IF bundleItems = <<>> THEN GibResult(acc, "", gets)
    ELSE LET bundleName == Head(bundleItems)
             secr == SecretGet(secrs, bundleName)
             gets1 == Append(gets, [op |-> "getBundle", name |-> bundleName])
         IN  IF ~secr.found THEN BundleError(acc, gets1)
             ELSE IF ~IsInline(secr)
                  THEN CollectBundles(Tail(bundleItems), secrs, acc, gets1)
                  ELSE CollectBundles(Tail(bundleItems), secrs,
                           Append(acc, [name |-> bundleName, data |-> secr.data]), gets1)

\* profileConfigMap.Labels["arlon-type"] != "profile"
LacksProfileLabelNever(profileConfigMap) == FALSE

LacksProfileLabel(profileConfigMap) == profileConfigMap.arlonType # "profile"

\* getInlineBundles from the Get of the profile on
getProfileBundles(profileName, cms, secrs) ==
    LET profileConfigMap == ConfigMapGet(cms, profileName)
        gets == <<[op |-> "getProfile", name |-> profileName]>>
        bundles == profileConfigMap.bundles
    IN  IF ~profileConfigMap.found THEN GibResult(<<>>, "ProfileNotFound", gets)
        ELSE IF LacksProfileLabel(profileConfigMap)
             THEN GibResult(<<>>, "InvalidProfile", gets)
        ELSE IF bundles = <<>> THEN GibResult(<<>>, "EmptyProfile", gets)
        ELSE CollectBundles(Split(bundles, ","), secrs, <<>>, gets)

getInlineBundlesNoEmptyCheck(profileName, cms, secrs) ==
    getProfileBundles(profileName, cms, secrs)

getInlineBundles(profileName, cms, secrs) ==
    IF profileName = "" THEN GibResult(<<>>, "", <<>>)
    ELSE getProfileBundles(profileName, cms, secrs)

-----------------------------------------------------------------------------
(* copyManifests *)

\* var content embed.FS (go:embed manifests/*): the entries of each directory in
\* ReadDir order, and the bytes of each file
ReadDir(root) ==
    IF root = <<>> THEN <<[name |-> "manifests", isDir |-> TRUE]>>
    ELSE IF root = <<"manifests">>
         THEN <<[name |-> "Chart.yaml", isDir |-> FALSE],
                [name |-> "templates", isDir |-> TRUE]>>
    ELSE IF root = <<"manifests", "templates">>
         THEN <<[name |-> "cluster.yaml", isDir |-> FALSE]>>
    ELSE <<>>

EmbeddedData(filePath) ==
    IF filePath = <<"manifests", "Chart.yaml">> THEN <<"chart">> ELSE <<"cluster">>

\* what a copy step of the working tree does: nothing goes wrong, or the named
\* operation fails at the at-th file or bundle
NoFault == [at |-> 0, kind |-> "none"]
Fault(at, kind) == [at |-> at, kind |-> kind]

\* the result of a copy function: the working tree it leaves and its error
CopyResult(wt, err) == [wt |-> wt, err |-> err]

\* components[1:] joined under mgmtPath ("remove manifests/ prefix")
DstPathKeepPrefix(filePath, mgmtPath) == PathJoin(mgmtPath, filePath)

DstPath(filePath, mgmtPath) == PathJoin(mgmtPath, Tail(filePath))

RECURSIVE VisitItems(_, _)
\* the files the recursion over ReadDir visits, in visiting order
VisitItems(root, items) ==
    IF items = <<>> THEN <<>>
    ELSE LET item == Head(items)
             filePath == PathJoin(root, <<item.name>>)
         IN  (IF item.isDir THEN VisitItems(filePath, ReadDir(filePath))
              ELSE <<filePath>>) \o VisitItems(root, Tail(items))

RECURSIVE CopyFiles(_, _, _, _, _)
\* the else branch of the loop, for the files still to visit; i counts them
CopyFiles(wt, files, mgmtPath, fault, i) ==
    IF files = <<>> THEN CopyResult(wt, "")
    ELSE LET filePath == Head(files)
             dstPath == DstPath(filePath, mgmtPath)
         IN  IF fault.at = i /\ fault.kind = "create"
             THEN CopyResult(wt, "WorkingTreeWriteFailed")
             ELSE IF fault.at = i /\ fault.kind = "copy"
                  THEN CopyResult(WriteFile(wt, dstPath, <<>>), "WorkingTreeWriteFailed")
             ELSE CopyFiles(WriteFile(wt, dstPath, EmbeddedData(filePath)),
                            Tail(files), mgmtPath, fault, i + 1)

\* a copy that first removes what the management directory held
copyManifestsClean(wt, root, mgmtPath, fault) ==
    LET kept == {f \in DOMAIN wt : ~(Len(f) >= Len(mgmtPath) /\
                                      SubSeq(f, 1, Len(mgmtPath)) = mgmtPath)}
    IN  CopyFiles([f \in kept |-> wt[f]], VisitItems(root, ReadDir(root)), mgmtPath,
                  fault, 1)

copyManifests(wt, root, mgmtPath, fault) ==
    CopyFiles(wt, VisitItems(root, ReadDir(root)), mgmtPath, fault, 1)

\* the number of files copyManifests copies
NumManifests == Len(VisitItems(<<>>, ReadDir(<<>>)))

-----------------------------------------------------------------------------
(* copyInlineBundles *)

\* appTmpl executed on an AppSettings value: the fields of the rendered object
RenderApp(app) ==
    <<[name |-> app.ClusterName \o "-" \o app.BundleName,
       namespace |-> app.AppNamespace,
       destinationName |-> app.ClusterName,
       destinationNamespace |-> app.DestinationNamespace,
       repoURL |-> app.RepoUrl,
       path |-> app.WorkloadPath \o "/" \o app.BundleName]>>

\* if bundle.data == nil
HasNoData(data) == data.isNil

RECURSIVE CopyBundles(_, _, _, _, _, _, _, _)
\* the loop over bundles; i counts them
CopyBundles(wt, clusterName, repoUrl, mgmtPath, workloadPath, bundles, fault, i) ==
    IF bundles = <<>> THEN CopyResult(wt, "")
    ELSE LET bundle == Head(bundles)
             dirPath == PathJoin(workloadPath, <<bundle.name>>)
             bundleFileName == bundle.name \o ".yaml"
             bundlePath == PathJoin(dirPath, <<bundleFileName>>)
             created == WriteFile(wt, bundlePath, <<>>)
             copied == WriteFile(wt, bundlePath, bundle.data.bytes)
             appPath == PathJoin(PathJoin(mgmtPath, <<"templates">>), <<bundleFileName>>)
             app == [ClusterName |-> clusterName, BundleName |-> bundle.name,
                     WorkloadPath |-> PathStr(workloadPath), AppNamespace |-> "argocd",
                     DestinationNamespace |-> "default", RepoUrl |-> Str(repoUrl)]
             here(kind) == fault.at = i /\ fault.kind = kind
         IN  IF here("mkdir") \/ here("create")
             THEN CopyResult(wt, "WorkingTreeWriteFailed")
             ELSE IF HasNoData(bundle.data) THEN CopyResult(created, "MissingPayload")
             ELSE IF here("copy") THEN CopyResult(created, "WorkingTreeWriteFailed")
             ELSE IF here("createApp") THEN CopyResult(copied, "WorkingTreeWriteFailed")
             ELSE IF here("render")
                  THEN CopyResult(WriteFile(copied, appPath, <<>>), "WorkingTreeWriteFailed")
             ELSE CopyBundles(WriteFile(copied, appPath, RenderApp(app)), clusterName,
                              repoUrl, mgmtPath, workloadPath, Tail(bundles), fault, i + 1)

copyInlineBundles(wt, clusterName, repoUrl, mgmtPath, workloadPath, bundles, fault) ==
    IF Len(bundles) = 0 THEN CopyResult(wt, "")
    ELSE CopyBundles(wt, clusterName, repoUrl, mgmtPath, workloadPath, bundles, fault, 1)

-----------------------------------------------------------------------------
(* DeployToGit, one action per statement that calls out *)

\* os.MkdirTemp("", "arlon-") returns a fresh directory per call, or "" and an error
TmpDirOf(p) == "arlon-" \o ToString(p)
Dirs == {""} \cup {TmpDirOf(p) : p \in Procs}

NoRepo == [exists |-> FALSE, wt |-> EmptyTree, head |-> EmptyTree, base |-> 0]

mgmtPath(p) == PathJoin(PathJoin(args[p].basePath, <<args[p].clusterName>>), <<"mgmt">>)
workloadPath(p) ==
    PathJoin(PathJoin(args[p].basePath, <<args[p].clusterName>>), <<"workload">>)

Op(name) == [op |-> name, arg |-> ""]
OpNames(p) == {ops[p][i].op : i \in 1..Len(ops[p])}
CountOp(p, name) == Cardinality({i \in 1..Len(ops[p]) : ops[p][i].op = name})

\* return an error (kind) or nil ("ok")
Return(p, kind) ==
    /\ pc' = [pc EXCEPT ![p] = "done"]
    /\ result' = [result EXCEPT ![p] = kind]

Goto(p, label) ==
    /\ pc' = [pc EXCEPT ![p] = label]
    /\ UNCHANGED result

Fail(p, step) == failed' = [failed EXCEPT ![p] = @ \cup {step}]

\* if creds == nil
CredsMissingNever(c) == FALSE

CredsMissing(c) == c.isNil

\* lines 123-140: list the repository secrets and pick the credentials
ListSecrets(p) ==
    /\ pc[p] = "list"
    /\ ops' = [ops EXCEPT ![p] = Append(@, Op("listSecrets"))]
    /\ \E listed \in BOOLEAN :
          IF ~listed
          THEN /\ Return(p, "ListFailed")
               /\ Fail(p, "list")
               /\ UNCHANGED creds
          ELSE LET found == FindCreds(repoSecrets, args[p].repoUrl)
               IN  /\ creds' = [creds EXCEPT ![p] = found]
                   /\ IF CredsMissing(found)
                      THEN Return(p, "CredentialNotFound") /\ Fail(p, "creds")
                      ELSE Goto(p, "bundles") /\ UNCHANGED failed
    /\ UNCHANGED <<rootVars, stores, remote, fs, args, inlineBundles, tmpDir, changed>>

\* lines 142-145
GetInlineBundles(p) ==
    /\ pc[p] = "bundles"
    /\ LET r == getInlineBundles(args[p].profileName, configMaps, bundleSecrets)
       IN  /\ ops' = [ops EXCEPT ![p] = @ \o [i \in 1..Len(r.gets) |->
                                                  [op |-> r.gets[i].op, arg |-> r.gets[i].name]]]
           /\ inlineBundles' = [inlineBundles EXCEPT ![p] = r.inlineBundles]
           /\ IF r.err # ""
              THEN Return(p, r.err) /\ Fail(p, "bundles")
              ELSE Goto(p, "mkdir") /\ UNCHANGED failed
    /\ UNCHANGED <<rootVars, stores, remote, fs, args, creds, tmpDir, changed>>

\* line 146: the error of MkdirTemp is overwritten by the clone's, never read
MkdirTemp(p) ==
    /\ pc[p] = "mkdir"
    /\ ops' = [ops EXCEPT ![p] = Append(@, Op("mkdirTemp"))]
    /\ \E made \in BOOLEAN :
          /\ tmpDir' = [tmpDir EXCEPT ![p] = IF made THEN TmpDirOf(p) ELSE ""]
          /\ IF made THEN UNCHANGED failed ELSE Fail(p, "mkdirTemp")
    /\ Goto(p, "clone")
    /\ UNCHANGED <<rootVars, stores, remote, fs, args, creds, inlineBundles, changed>>

\* lines 147-165: clone the branch into tmpDir; a directory that already holds a
\* repository is refused, and the transport may fail
Clone(p) ==
    /\ pc[p] = "clone"
    /\ ops' = [ops EXCEPT ![p] = Append(@, [op |-> "clone", arg |-> creds[p]])]
    /\ \E transferred \in BOOLEAN :
          IF transferred /\ ~fs[tmpDir[p]].exists
          THEN /\ fs' = [fs EXCEPT ![tmpDir[p]] =
                            [exists |-> TRUE, wt |-> remote[Len(remote)],
                             head |-> remote[Len(remote)], base |-> Len(remote)]]
               /\ Goto(p, "worktree")
               /\ UNCHANGED failed
          ELSE /\ Return(p, "CloneFailed")
               /\ Fail(p, "clone")
               /\ UNCHANGED fs
    /\ UNCHANGED <<rootVars, stores, remote, args, creds, inlineBundles, tmpDir, changed>>

\* lines 166-171
Worktree(p) ==
    /\ pc[p] = "worktree"
    /\ ops' = [ops EXCEPT ![p] = Append(@, Op("worktree"))]
    /\ \E opened \in BOOLEAN :
          IF opened THEN Goto(p, "manifests") /\ UNCHANGED failed
          ELSE Return(p, "WorktreeFailed") /\ Fail(p, "worktree")
    /\ UNCHANGED <<rootVars, stores, remote, fs, args, creds, inlineBundles, tmpDir, changed>>

ManifestFaults ==
    {NoFault} \cup {Fault(i, k) : i \in 1..NumManifests, k \in {"create", "copy"}}

\* lines 172-175; a failing dst.Close() is discarded (line 231)
CopyManifests(p) ==
    /\ pc[p] = "manifests"
    /\ ops' = [ops EXCEPT ![p] = Append(@, Op("copyManifests"))]
    /\ \E fault \in ManifestFaults, closed \in BOOLEAN :
          LET r == copyManifests(fs[tmpDir[p]].wt, <<>>, mgmtPath(p), fault)
          IN  /\ fs' = [fs EXCEPT ![tmpDir[p]].wt = r.wt]
              /\ IF r.err # ""
                 THEN Return(p, r.err) /\ Fail(p, "manifests")
                 ELSE /\ Goto(p, "inline")
                      /\ IF closed THEN UNCHANGED failed ELSE Fail(p, "close")
    /\ UNCHANGED <<rootVars, stores, remote, args, creds, inlineBundles, tmpDir, changed>>

BundleFaults(n) ==
    {NoFault} \cup {Fault(i, k) : i \in 1..n,
                                  k \in {"mkdir", "create", "copy", "createApp", "render"}}

\* lines 176-179; a failing dst.Close() is discarded (lines 350, 364)
CopyInlineBundles(p) ==
    /\ pc[p] = "inline"
    /\ ops' = [ops EXCEPT ![p] = Append(@, Op("copyInlineBundles"))]
    /\ \E fault \in BundleFaults(Len(inlineBundles[p])), closed \in BOOLEAN :
          LET r == copyInlineBundles(fs[tmpDir[p]].wt, args[p].clusterName,
                                     args[p].repoUrl, mgmtPath(p), workloadPath(p),
                                     inlineBundles[p], fault)
          IN  /\ fs' = [fs EXCEPT ![tmpDir[p]].wt = r.wt]
              /\ IF r.err # ""
                 THEN Return(p, r.err) /\ Fail(p, "inline")
                 ELSE /\ Goto(p, "commit")
                      /\ IF closed \/ Len(inlineBundles[p]) = 0
                         THEN UNCHANGED failed ELSE Fail(p, "close")
    /\ UNCHANGED <<rootVars, stores, remote, args, creds, inlineBundles, tmpDir, changed>>

\* gitutils.CommitChanges(tmpDir, wt): whether the working tree differs from HEAD;
\* when it does, everything is staged and committed
CommitCreated(wt, head) == wt # head

\* the tree of the commit: every change of the working tree is staged
CommittedTree(wt) == wt

\* if !changed { return nil }
SkipsPushNever(ch) == FALSE

SkipsPush(ch) == ~ch

\* lines 180-187
CommitChanges(p) ==
    /\ pc[p] = "commit"
    /\ ops' = [ops EXCEPT ![p] = Append(@, Op("commitChanges"))]
    /\ \E committed \in BOOLEAN :
          IF ~committed
          THEN /\ Return(p, "CommitFailed")
               /\ Fail(p, "commit")
               /\ UNCHANGED <<fs, changed>>
          ELSE LET repo == fs[tmpDir[p]]
                   ch == CommitCreated(repo.wt, repo.head)
               IN  /\ changed' = [changed EXCEPT ![p] = ch]
                   /\ fs' = [fs EXCEPT ![tmpDir[p]].head = CommittedTree(repo.wt)]
                   /\ IF SkipsPush(ch) THEN Return(p, "ok") ELSE Goto(p, "push")
                   /\ UNCHANGED failed
    /\ UNCHANGED <<rootVars, stores, remote, args, creds, inlineBundles, tmpDir>>

\* what the push met: a transport failure, or the remote refusing an update that is
\* not a fast-forward
PushFailure(transferred) == IF transferred THEN {"push", "pushRejected"} ELSE {"push"}

\* a push with PushOptions.Force: the branch is set to the pushed commit
PushForce(p) ==
    /\ pc[p] = "push"
    /\ ops' = [ops EXCEPT ![p] = Append(@, [op |-> "push", arg |-> creds[p]])]
    /\ \E transferred \in BOOLEAN :
          IF transferred
          THEN /\ remote' = Append(SubSeq(remote, 1, fs[tmpDir[p]].base), fs[tmpDir[p]].head)
               /\ Return(p, "ok")
               /\ UNCHANGED failed
          ELSE /\ Return(p, "PushFailed")
               /\ failed' = [failed EXCEPT ![p] = @ \cup PushFailure(transferred)]
               /\ UNCHANGED remote
    /\ UNCHANGED <<rootVars, stores, fs, args, creds, inlineBundles, tmpDir, changed>>

\* a push that is tried again after a failure
PushRetry(p) ==
    /\ pc[p] = "push"
    /\ ops' = [ops EXCEPT ![p] = Append(@, [op |-> "push", arg |-> creds[p]])]
    /\ \E transferred \in BOOLEAN :
          IF transferred /\ Len(remote) = fs[tmpDir[p]].base
          THEN /\ remote' = Append(remote, fs[tmpDir[p]].head)
               /\ Return(p, "ok")
               /\ UNCHANGED failed
          ELSE /\ failed' = [failed EXCEPT ![p] = @ \cup PushFailure(transferred)]
               /\ UNCHANGED <<remote, pc, result>>
    /\ UNCHANGED <<rootVars, stores, fs, args, creds, inlineBundles, tmpDir, changed>>

\* lines 188-198: the remote accepts a fast-forward of the branch only
Push(p) ==
    /\ pc[p] = "push"
    /\ ops' = [ops EXCEPT ![p] = Append(@, [op |-> "push", arg |-> creds[p]])]
    /\ \E transferred \in BOOLEAN :
          IF transferred /\ Len(remote) = fs[tmpDir[p]].base
          THEN /\ remote' = Append(remote, fs[tmpDir[p]].head)
               /\ Return(p, "ok")
               /\ UNCHANGED failed
          ELSE /\ Return(p, "PushFailed")
               /\ failed' = [failed EXCEPT ![p] = @ \cup PushFailure(transferred)]
               /\ UNCHANGED remote
    /\ UNCHANGED <<rootVars, stores, fs, args, creds, inlineBundles, tmpDir, changed>>

Next ==
    \E p \in Procs :
        \/ ListSecrets(p)
        \/ GetInlineBundles(p)
        \/ MkdirTemp(p)
        \/ Clone(p)
        \/ Worktree(p)
        \/ CopyManifests(p)
        \/ CopyInlineBundles(p)
        \/ CommitChanges(p)
        \/ Push(p)

-----------------------------------------------------------------------------
(* ConstructRootApp *)

ClusterSpecNames == {"cs1"}

\* keys := []string{"region", ...}
keys == <<"region", "sshKeyName", "kubernetesVersion", "podCidrBlock", "nodeCount",
          "nodeType">>

\* the keys a cluster-spec record may carry: the six above and one more
DataKeys == {keys[i] : i \in 1..Len(keys)} \cup {"vpcId"}
DataValues == {"", "x", "y"}

\* cm.Data: a map from some of the keys to strings
DataMaps == UNION {[K -> DataValues] : K \in SUBSET DataKeys}

NoClusterSpec == [found |-> FALSE, data |-> <<>>]
ClusterSpec(data) == [found |-> TRUE, data |-> data]

\* configMapsApi.Get(ctx, clusterSpecName, ...)
ClusterSpecGet(specs, name) == IF name \in DOMAIN specs THEN specs[name] ELSE NoClusterSpec

\* cm.Data[key]: the zero string when the map has no such key
DataGet(data, key) == IF key \in DOMAIN data THEN data[key] ELSE ""

HelmParameter(name, value) == [Name |-> name, Value |-> value]

\* if val != ""
HasValueAlways(val) == TRUE

HasValue(val) == val # ""

RECURSIVE AppendParams(_, _, _)
\* for _, key := range keys, from index i on
AppendParams(data, helmParams, i) ==
    IF i > Len(keys) THEN helmParams
    ELSE LET val == DataGet(data, keys[i])
         IN  IF HasValue(val)
             THEN AppendParams(data, Append(helmParams, HelmParameter(keys[i], val)), i + 1)
             ELSE AppendParams(data, helmParams, i + 1)

\* the nil *Application
NilApp ==
    [isNil |-> TRUE, Name |-> "", Namespace |-> "", HelmParameters |-> <<>>,
     RepoURL |-> "", TargetRevision |-> "", Path |-> "", DestinationServer |-> "",
     DestinationNamespace |-> "", Prune |-> FALSE]

RootResult(app, err) == [called |-> TRUE, app |-> app, err |-> err]
NotCalled == [called |-> FALSE, app |-> NilApp, err |-> ""]

\* if err != nil { return nil, ... } after the Get
GetFailedNever(cm) == FALSE

GetFailed(cm) == ~cm.found

\* app.Spec.Source.Path = path.Join(basePath, clusterName, "mgmt")
SourcePathWorkload(basePath, clusterName) ==
    PathStr(PathJoin(PathJoin(basePath, <<clusterName>>), <<"workload">>))

SourcePath(basePath, clusterName) ==
    PathStr(PathJoin(PathJoin(basePath, <<clusterName>>), <<"mgmt">>))

ConstructRootApp(specs, argocdNs, clusterName, repoUrl, repoBranch, basePath, clusterSpecName) ==
    LET cm == ClusterSpecGet(specs, clusterSpecName)
    IN  IF GetFailed(cm) THEN RootResult(NilApp, "ClusterSpecNotFound")
        ELSE RootResult(
                [isNil |-> FALSE,
                 Name |-> clusterName,
                 Namespace |-> argocdNs,
                 HelmParameters |->
                     AppendParams(cm.data, <<HelmParameter("clusterName", clusterName)>>, 1),
                 RepoURL |-> repoUrl,
                 TargetRevision |-> repoBranch,
                 Path |-> SourcePath(basePath, clusterName),
                 DestinationServer |-> "https://kubernetes.default.svc",
                 DestinationNamespace |-> "default",
                 Prune |-> TRUE],
                "")

\* one call of ConstructRootApp
RootApp ==
    /\ ~rootApp.called
    /\ rootApp' = ConstructRootApp(clusterSpecs, rootArgs.argocdNs, rootArgs.clusterName,
                                   rootArgs.repoUrl, rootArgs.repoBranch,
                                   rootArgs.basePath, rootArgs.clusterSpecName)
    /\ UNCHANGED <<stores, remote, fs, args, pc, creds, inlineBundles, tmpDir, changed,
                   result, ops, failed, clusterSpecs, rootArgs>>

NextRootApp == RootApp

-----------------------------------------------------------------------------
(* Initial states *)

Secret(u, n) == [url |-> u, username |-> n, password |-> PasswordOf(n)]
Profile(label, bundles) == [found |-> TRUE, arlonType |-> label, bundles |-> bundles]
Bundle(type, data) == [found |-> TRUE, bundleType |-> type, data |-> data]

Args(cluster, url, profile) ==
    [clusterName |-> cluster, repoUrl |-> url, basePath |-> <<"base">>,
     profileName |-> profile]

\* basePath: a directory of the repository, or "" for its root
BasePaths == {<<>>, <<"base">>}
AtBase(a, base) == [a EXCEPT !.basePath = base]

\* the branch before the invocations: an empty tree, or one that already holds
\* files of another cluster and, for this cluster, an outdated base file and the stub
\* and payload of a bundle z that an earlier deploy published
OldTree ==
    (<<"base", "c0", "mgmt", "Chart.yaml">> :> <<"chart">>) @@
    (<<"base", "c1", "mgmt", "Chart.yaml">> :> <<"old">>) @@
    (<<"base", "c1", "mgmt", "templates", "z.yaml">> :> <<"stub-z">>) @@
    (<<"base", "c1", "workload", "z", "z.yaml">> :> <<"Z">>)

\* the state of the invocations in Started before their first statement
RootArgs(cluster, base, specName) ==
    [argocdNs |-> "argocd", clusterName |-> cluster, repoUrl |-> Str(UrlPlain),
     repoBranch |-> "main", basePath |-> base, clusterSpecName |-> specName]

\* no ConstructRootApp call is under way
InitRootIdle ==
    /\ clusterSpecs = [n \in ClusterSpecNames |-> ClusterSpec(<<>>)]
    /\ rootArgs = RootArgs("c1", <<"base">>, "cs1")
    /\ rootApp = NotCalled

InitInvocations(Started) ==
    /\ fs = [d \in Dirs |-> NoRepo]
    /\ pc = [p \in Procs |-> IF p \in Started THEN "list" ELSE "idle"]
    /\ creds = [p \in Procs |-> NoCreds]
    /\ inlineBundles = [p \in Procs |-> <<>>]
    /\ tmpDir = [p \in Procs |-> ""]
    /\ changed = [p \in Procs |-> FALSE]
    /\ result = [p \in Procs |-> ""]
    /\ ops = [p \in Procs |-> <<>>]
    /\ failed = [p \in Procs |-> {}]

InitLocals(Started) == InitInvocations(Started) /\ InitRootIdle

\* the pipeline: every invocation runs, interleaved, against one remote
Init ==
    /\ repoSecrets = <<Secret(UrlPlain, "u1")>>
    /\ configMaps = [n \in ProfileNames |-> Profile("profile", <<"a", ",", "b">>)]
    /\ \E da \in Payloads, tb \in {"inline", ""} :
          bundleSecrets = [n \in BundleNames |->
              IF n = "a" THEN Bundle("inline", da) ELSE Bundle(tb, Bytes(<<"Y">>))]
    /\ remote \in {<<EmptyTree>>, <<OldTree>>}
    /\ \E base \in BasePaths :
          args \in [Procs -> {AtBase(Args("c1", UrlPlain, pn), base) :
                                  pn \in {""} \cup ProfileNames}]
    /\ InitLocals(Procs)

Spec == Init /\ [][Next]_vars

\* credential lookup: one invocation, any list of repository secrets and any of the
\* URLs as target
InitCreds ==
    /\ repoSecrets \in SeqsUpTo(SecretRecords, MaxSecrets)
    /\ configMaps = [n \in ProfileNames |-> Profile("profile", <<"a", ",", "b">>)]
    /\ bundleSecrets = [n \in BundleNames |->
          IF n = "a" THEN Bundle("inline", Bytes(<<"X">>)) ELSE Bundle("", Bytes(<<"Y">>))]
    /\ remote = <<EmptyTree>>
    /\ \E u \in Urls : args = [p \in Procs |-> Args("c1", u, "p1")]
    /\ InitLocals({1})

SpecCreds == InitCreds /\ [][Next]_vars

\* the records a bundle name may resolve to: none, an external bundle, an inline
\* bundle with a payload, an inline bundle without
BundleRecords ==
    {NoSecret, Bundle("", Bytes(<<"Y">>)), Bundle("inline", Bytes(<<"X">>)),
     Bundle("inline", NilBytes)}

\* the records a profile name may resolve to
ProfileRecords ==
    {NoConfigMap} \cup
    {Profile(label, b) : label \in {"profile", ""}, b \in SeqsUpTo(DeclChars, MaxDeclLen)}

\* bundle collection: one invocation, any profile record and any bundle records
InitBundles ==
    /\ repoSecrets = <<Secret(UrlPlain, "u1")>>
    /\ configMaps \in [ProfileNames -> ProfileRecords]
    /\ bundleSecrets \in [BundleNames -> BundleRecords]
    /\ remote = <<EmptyTree>>
    /\ \E pn \in {""} \cup ProfileNames : args = [p \in Procs |-> Args("c1", UrlPlain, pn)]
    /\ InitLocals({1})

SpecBundles == InitBundles /\ [][Next]_vars

-----------------------------------------------------------------------------
(* Properties of the pipeline *)

\* the local repository of an invocation whose clone succeeded
Cloned(p) == "worktree" \in OpNames(p)
RepoOf(p) == fs[tmpDir[p]]

\* the change check of invocation p ran and returned without error
Checked(p) == "commitChanges" \in OpNames(p) /\ pc[p] # "commit" /\ result[p] # "CommitFailed"

\* the steps that precede the push
StepsBeforePush ==
    {"list", "creds", "bundles", "mkdirTemp", "clone", "worktree", "manifests", "inline",
     "commit"}

\* failures of the transport, the API server or the local file system
EnvFailures ==
    {"ListFailed", "CloneFailed", "WorktreeFailed", "WorkingTreeWriteFailed", "CommitFailed",
     "PushFailed"}

\* C1: a push to the remote happens only if every earlier step of the invocation
\* (credential lookup, bundle collection, temp-directory allocation, clone, worktree
\* open, base-manifest copy, inline-bundle copy, commit) succeeded.
C1_PushOnlyAfterEveryStepSucceeded ==
    \A p \in Procs : "push" \in OpNames(p) => failed[p] \cap StepsBeforePush = {}

\* the index in remote of the commit invocation p left the branch at
FinalOf(p) == IF changed[p] THEN RepoOf(p).base + 1 ELSE RepoOf(p).base

\* q is a second run of p: p succeeded, q has p's inputs, and q cloned the commit p
\* left the branch at
Rerun(p, q) ==
    /\ p # q
    /\ result[p] = "ok"
    /\ args[q] = args[p]
    /\ Cloned(q)
    /\ RepoOf(q).base = FinalOf(p)

\* C2: deploy is idempotent.  A first run that succeeds pushes exactly one commit, the
\* tree it built, when that tree differs from the cloned HEAD.  A second run with the
\* same inputs on the commit the first left builds a tree equal to the cloned HEAD,
\* is classified as no change, creates and pushes no commit, and returns success
\* unless the transport or the file system fails.
C2_DeployIdempotent ==
    \A p \in Procs :
        /\ (result[p] = "ok" /\ changed[p]) =>
              /\ CountOp(p, "push") = 1
              /\ Len(remote) > RepoOf(p).base
              /\ remote[RepoOf(p).base + 1] = RepoOf(p).wt
              /\ remote[RepoOf(p).base] # RepoOf(p).wt
        /\ \A q \in Procs :
              Rerun(p, q) =>
                /\ pc[q] = "commit" => RepoOf(q).wt = remote[RepoOf(q).base]
                /\ Checked(q) => ~changed[q]
                /\ RepoOf(q).head = remote[RepoOf(q).base]
                /\ "push" \notin OpNames(q)
                /\ pc[q] = "done" => result[q] \in {"ok"} \cup EnvFailures

C2_Witness ==
    \E p, q \in Procs :
        /\ Rerun(p, q)
        /\ changed[p]
        /\ inlineBundles[q] # <<>>
        /\ Checked(q)
        /\ result[q] = "ok"

\* C3: when the change check reports no change, DeployToGit returns success and
\* contacts the remote no more after the clone; a push is attempted only when the
\* check reports that a commit was created.
C3_NoChangeNoPush ==
    \A p \in Procs :
        /\ (Checked(p) /\ ~changed[p]) =>
              /\ pc[p] = "done"
              /\ result[p] = "ok"
              /\ "push" \notin OpNames(p)
              /\ CountOp(p, "clone") = 1
              /\ ops[p][Len(ops[p])].op = "commitChanges"
        /\ (pc[p] = "push" \/ "push" \in OpNames(p)) => (Checked(p) /\ changed[p])

C3_Witness ==
    \E p \in Procs :
        /\ Checked(p)
        /\ ~changed[p]
        /\ result[p] = "ok"
        /\ remote[RepoOf(p).base] # EmptyTree

\* an inline bundle whose payload is absent or has zero bytes
EmptyPayload(bundle) == bundle.data.isNil \/ bundle.data.bytes = <<>>

\* C4: an inline bundle whose payload is empty (absent, or present with zero bytes)
\* makes the deploy fail with MissingPayload: no commit is created or pushed with a
\* zero-length file for it.
C4_EmptyPayloadFails ==
    \A p \in Procs :
        (\E i \in 1..Len(inlineBundles[p]) : EmptyPayload(inlineBundles[p][i])) =>
            /\ ~changed[p]
            /\ "push" \notin OpNames(p)
            /\ "copyInlineBundles" \in OpNames(p) /\ pc[p] # "inline" =>
                  result[p] \in {"MissingPayload", "WorkingTreeWriteFailed"}

-----------------------------------------------------------------------------
(* Properties of the credential lookup *)

\* invocation p listed the secrets and went through the loop over them
Resolved(p) == pc[p] \notin {"idle", "list"} /\ result[p] # "ListFailed"

\* the positions of the listed secrets whose url is the target URL, character by
\* character
ExactMatches(p) == {i \in 1..Len(repoSecrets) : repoSecrets[i].url = args[p].repoUrl}

Least(S) == CHOOSE i \in S : \A j \in S : i <= j

\* C5: the credentials are those of the first listed record whose url equals the
\* target URL exactly; a record that differs by a trailing slash or by letter case is
\* never selected; clone and push both authenticate with the selected record.
C5_FirstExactMatch ==
    \A p \in Procs :
        Resolved(p) =>
            /\ creds[p].isNil <=> ExactMatches(p) = {}
            /\ ~creds[p].isNil =>
                  LET first == repoSecrets[Least(ExactMatches(p))]
                  IN  /\ creds[p].Url = args[p].repoUrl
                      /\ creds[p].Username = first.username
                      /\ creds[p].Password = first.password
                      /\ \A k \in 1..Len(ops[p]) :
                            ops[p][k].op \in {"clone", "push"} =>
                              /\ ops[p][k].arg.Username = first.username
                              /\ ops[p][k].arg.Password = first.password

\* a near miss listed first, the exact record second, used up to the push
C5_Witness ==
    \E p \in Procs :
        /\ Len(repoSecrets) = 2
        /\ repoSecrets[1].url # args[p].repoUrl
        /\ Normalize(repoSecrets[1].url) = Normalize(args[p].repoUrl)
        /\ repoSecrets[1].username # repoSecrets[2].username
        /\ "push" \in OpNames(p)
        /\ result[p] = "ok"

\* C6: when no listed record has the target URL, DeployToGit fails with
\* CredentialNotFound and does nothing else: no profile or bundle lookup, no clone, no
\* write to a working tree, no commit, no push.
C6_CredentialNotFoundStops ==
    \A p \in Procs :
        (Resolved(p) /\ ExactMatches(p) = {}) =>
            /\ pc[p] = "done"
            /\ result[p] = "CredentialNotFound"
            /\ OpNames(p) = {"listSecrets"}
            /\ ~changed[p]
            /\ \A d \in Dirs : fs[d] = NoRepo
            /\ remote = <<EmptyTree>>

\* only near misses are listed
C6_Witness ==
    \E p \in Procs :
        /\ result[p] = "CredentialNotFound"
        /\ Len(repoSecrets) = 2
        /\ \A i \in 1..2 : Normalize(repoSecrets[i].url) = Normalize(args[p].repoUrl)

-----------------------------------------------------------------------------
(* Properties of the bundle collection *)

\* invocation p is past its call of getInlineBundles
Collected(p) == Resolved(p) /\ ~creds[p].isNil /\ pc[p] # "bundles"

ProfileOf(p) == ConfigMapGet(configMaps, args[p].profileName)
\* the names the profile declares, in declaration order
DeclaredNames(p) == Split(ProfileOf(p).bundles, ",")

\* the profile of p is a profile record with a non-empty declaration
ValidProfile(p) ==
    /\ args[p].profileName # ""
    /\ ProfileOf(p).found
    /\ ProfileOf(p).arlonType = "profile"
    /\ ProfileOf(p).bundles # <<>>

Resolves(name) == name \in BundleNames /\ bundleSecrets[name].found

CollectionErrors == {"ProfileNotFound", "InvalidProfile", "EmptyProfile", "BundleNotFound"}

GetsOf(p, kind) == SelectSeq(ops[p], LAMBDA o : o.op = kind)

\* C7: for a valid profile whose declared names all resolve, getInlineBundles returns
\* exactly the declared names whose record carries the inline marker, each with its
\* payload, in declaration order; external bundles are left out without error.
C7_InlineSubsequenceInOrder ==
    \A p \in Procs :
        (/\ Collected(p)
         /\ ValidProfile(p)
         /\ \A i \in 1..Len(DeclaredNames(p)) : Resolves(DeclaredNames(p)[i])) =>
            LET inline == SelectSeq(DeclaredNames(p),
                                    LAMBDA n : bundleSecrets[n].bundleType = "inline")
            IN  /\ result[p] \notin CollectionErrors
                /\ Len(inlineBundles[p]) = Len(inline)
                /\ \A i \in 1..Len(inline) :
                      /\ inlineBundles[p][i].name = inline[i]
                      /\ inlineBundles[p][i].data = bundleSecrets[inline[i]].data

\* the declaration is "b,a,b", a is external and b is inline with a payload
C7_Witness ==
    \E p \in Procs :
        /\ Collected(p)
        /\ DeclaredNames(p) = <<"b", "a", "b">>
        /\ bundleSecrets["a"].found /\ bundleSecrets["a"].bundleType # "inline"
        /\ Len(inlineBundles[p]) = 2
        /\ \A i \in 1..2 : inlineBundles[p][i] = [name |-> "b", data |-> Bytes(<<"X">>)]
        /\ result[p] = "ok"

\* C8: if a declared name does not resolve, getInlineBundles fails with BundleNotFound
\* at the first such name and returns no bundle at all, whatever was collected before
\* it; the deploy then neither clones nor pushes.
C8_BundleNotFoundNoPartial ==
    \A p \in Procs :
        (/\ Collected(p)
         /\ ValidProfile(p)
         /\ \E i \in 1..Len(DeclaredNames(p)) : ~Resolves(DeclaredNames(p)[i])) =>
            LET firstBad == Least({i \in 1..Len(DeclaredNames(p)) :
                                      ~Resolves(DeclaredNames(p)[i])})
            IN  /\ pc[p] = "done"
                /\ result[p] = "BundleNotFound"
                /\ inlineBundles[p] = <<>>
                /\ Len(GetsOf(p, "getBundle")) = firstBad
                /\ OpNames(p) = {"listSecrets", "getProfile", "getBundle"}
                /\ \A d \in Dirs : fs[d] = NoRepo
                /\ remote = <<EmptyTree>>

\* two inline bundles resolve before the name that does not
C8_Witness ==
    \E p \in Procs :
        /\ result[p] = "BundleNotFound"
        /\ Len(DeclaredNames(p)) = 3
        /\ \A i \in 1..2 :
              /\ Resolves(DeclaredNames(p)[i])
              /\ bundleSecrets[DeclaredNames(p)[i]].bundleType = "inline"
        /\ ~Resolves(DeclaredNames(p)[3])

\* C9: for a non-empty profile name, getInlineBundles fails with InvalidProfile when
\* the profile record lacks the profile marker, and with EmptyProfile when the record
\* (carrying the marker) declares no bundles; in both cases no bundle record is looked
\* up and no bundle is returned.
C9_InvalidOrEmptyProfile ==
    \A p \in Procs :
        (Collected(p) /\ args[p].profileName # "" /\ ProfileOf(p).found) =>
            /\ ProfileOf(p).arlonType # "profile" => result[p] = "InvalidProfile"
            /\ (ProfileOf(p).arlonType = "profile" /\ ProfileOf(p).bundles = <<>>) =>
                  result[p] = "EmptyProfile"
            /\ (ProfileOf(p).arlonType # "profile" \/ ProfileOf(p).bundles = <<>>) =>
                  /\ pc[p] = "done"
                  /\ result[p] \in {"InvalidProfile", "EmptyProfile"}
                  /\ "getBundle" \notin OpNames(p)
                  /\ Len(GetsOf(p, "getProfile")) = 1
                  /\ inlineBundles[p] = <<>>

\* a record without the marker whose declaration names inline bundles that resolve
C9_Witness ==
    \E p \in Procs :
        /\ result[p] = "InvalidProfile"
        /\ ProfileOf(p).bundles = <<"a", ",", "b">>
        /\ \A n \in BundleNames : Resolves(n) /\ bundleSecrets[n].bundleType = "inline"

\* C10: an empty profile name yields no bundle and no error without any lookup in the
\* profile or bundle store, and the deploy goes on with the remaining steps.
C10_EmptyProfileName ==
    \A p \in Procs :
        (Collected(p) /\ args[p].profileName = "") =>
            /\ inlineBundles[p] = <<>>
            /\ result[p] \notin CollectionErrors
            /\ OpNames(p) \cap {"getProfile", "getBundle"} = {}
            /\ pc[p] = "mkdir" \/ "mkdirTemp" \in OpNames(p)
            /\ pc[p] = "done" => result[p] \in {"ok"} \cup EnvFailures
            /\ result[p] = "ok" =>
                  /\ OpNames(p) = {"listSecrets", "mkdirTemp", "clone", "worktree",
                                    "copyManifests", "copyInlineBundles", "commitChanges",
                                    "push"}
                  /\ \A i \in 1..NumManifests :
                        LET f == VisitItems(<<>>, ReadDir(<<>>))[i]
                        IN  remote[Len(remote)][DstPath(f, mgmtPath(p))] = EmbeddedData(f)

C10_Witness ==
    \E p \in Procs :
        /\ args[p].profileName = ""
        /\ result[p] = "ok"
        /\ "push" \in OpNames(p)
        /\ Len(remote) = 2

-----------------------------------------------------------------------------
(* The root descriptor *)

\* one ConstructRootApp call: any cluster-spec record, or none under the name asked for
InitRootApp ==
    /\ repoSecrets = <<Secret(UrlPlain, "u1")>>
    /\ configMaps = [n \in ProfileNames |-> Profile("profile", <<"a", ",", "b">>)]
    /\ bundleSecrets = [n \in BundleNames |-> Bundle("inline", Bytes(<<"X">>))]
    /\ remote = <<EmptyTree>>
    /\ args = [p \in Procs |-> Args("c1", UrlPlain, "p1")]
    /\ InitInvocations({})
    /\ clusterSpecs \in [ClusterSpecNames -> {ClusterSpec(d) : d \in DataMaps}]
    /\ rootArgs \in {RootArgs(c, b, n) : c \in {"c1", "c2"}, b \in {<<>>, <<"base">>},
                                         n \in ClusterSpecNames \cup {"cs0"}}
    /\ rootApp = NotCalled

SpecRootApp == InitRootApp /\ [][NextRootApp]_vars

\* the record ConstructRootApp read
SpecRead == ClusterSpecGet(clusterSpecs, rootArgs.clusterSpecName)

\* the whitelisted keys the record holds with a non-empty value, in whitelist order
PresentKeys(data) == SelectSeq(keys, LAMBDA k : k \in DOMAIN data /\ data[k] # "")

\* C12: the parameter list of the root descriptor has clusterName first, then exactly
\* the whitelisted keys present in the cluster-spec record with a non-empty value, in
\* whitelist order with the record's values; nothing else.
C12_ParamsAreWhitelistInOrder ==
    (rootApp.called /\ SpecRead.found) =>
        LET params == rootApp.app.HelmParameters
            present == PresentKeys(SpecRead.data)
        IN  /\ ~rootApp.app.isNil
            /\ rootApp.err = ""
            /\ Len(params) = 1 + Len(present)
            /\ params[1] = HelmParameter("clusterName", rootArgs.clusterName)
            /\ \A i \in 1..Len(present) :
                  params[i + 1] = HelmParameter(present[i], SpecRead.data[present[i]])

\* the record holds a later key, an empty value, a key outside the whitelist and
\* lacks other keys
C12_Witness ==
    /\ rootApp.called
    /\ SpecRead.found
    /\ DOMAIN SpecRead.data = {"nodeType", "region", "sshKeyName", "vpcId"}
    /\ SpecRead.data["sshKeyName"] = ""
    /\ SpecRead.data["vpcId"] = "x"
    /\ rootApp.app.HelmParameters =
          <<HelmParameter("clusterName", rootArgs.clusterName),
            HelmParameter("region", "y"), HelmParameter("nodeType", "x")>>

\* C13: when the cluster-spec record is not found ConstructRootApp returns an error
\* and no root descriptor; it never builds one from defaults.
C13_NoSpecNoRootApp ==
    (rootApp.called /\ ~SpecRead.found) =>
        /\ rootApp.err = "ClusterSpecNotFound"
        /\ rootApp.app = NilApp

C13_Witness ==
    /\ rootApp.called
    /\ rootArgs.clusterSpecName \notin DOMAIN clusterSpecs
    /\ rootApp.err # ""

-----------------------------------------------------------------------------
(* Properties of the publication *)

\* the files copyManifests copies, as paths of the embedded file system
ManifestFiles == VisitItems(<<>>, ReadDir(<<>>))

\* B/C/workload/b/b.yaml and B/C/mgmt/templates/b.yaml
BundleFile(p, name) == PathJoin(PathJoin(workloadPath(p), <<name>>), <<name \o ".yaml">>)
StubFile(p, name) == PathJoin(PathJoin(mgmtPath(p), <<"templates">>), <<name \o ".yaml">>)

\* the tree invocation p cloned, and the tree of the commit a successful p left the
\* branch at (its own commit, or the cloned one when nothing changed)
ClonedTree(p) == remote[RepoOf(p).base]
PublishedTree(p) == remote[FinalOf(p)]

\* the declared names of p's profile that resolve to a bundle without the inline marker
ExternalNames(p) ==
    IF args[p].profileName = "" THEN {}
    ELSE {n \in BundleNames :
            /\ \E i \in 1..Len(DeclaredNames(p)) : DeclaredNames(p)[i] = n
            /\ bundleSecrets[n].found
            /\ bundleSecrets[n].bundleType # "inline"}

-----------------------------------------------------------------------------
(* Properties of concurrent and repeated attempts *)

Done(p) == pc[p] = "done"

\* C14: when two invocations both cloned the same HEAD and both committed changes,
\* the one whose push the remote rejects as not a fast-forward returns PushFailed
\* after its single clone and single push, and the branch ends with the other
\* invocation's commit.
C14_RejectedPushIsFatal ==
    \A p, q \in Procs :
        (/\ p # q
         /\ Done(p) /\ Done(q)
         /\ changed[p] /\ changed[q]
         /\ tmpDir[p] # tmpDir[q]
         /\ RepoOf(p).base = RepoOf(q).base
         /\ result[q] = "ok")
        => /\ result[p] = "PushFailed"
           /\ CountOp(p, "clone") = 1
           /\ CountOp(p, "commitChanges") = 1
           /\ CountOp(p, "push") = 1
           /\ Len(remote) = RepoOf(q).base + 1
           /\ remote[Len(remote)] = RepoOf(q).head

\* the loser's push reached the remote and was refused; its commit differs from the
\* winner's
C14_Witness ==
    \E p, q \in Procs :
        /\ p # q
        /\ "pushRejected" \in failed[p]
        /\ result[p] = "PushFailed"
        /\ result[q] = "ok" /\ changed[q]
        /\ RepoOf(p).base = RepoOf(q).base
        /\ RepoOf(p).head # RepoOf(q).head

\* C16: an invocation clones, commits and pushes at most once each; a push that fails
\* ends the invocation with PushFailed.
C16_NoRetry ==
    \A p \in Procs :
        /\ CountOp(p, "clone") <= 1
        /\ CountOp(p, "commitChanges") <= 1
        /\ CountOp(p, "push") <= 1
        /\ "push" \in failed[p] => Done(p) /\ result[p] = "PushFailed"
        /\ "clone" \in failed[p] => Done(p) /\ result[p] = "CloneFailed"
        /\ "commit" \in failed[p] => Done(p) /\ result[p] = "CommitFailed"

\* the transfer of the push failed (the remote did not refuse it)
C16_Witness ==
    \E p \in Procs :
        /\ "push" \in failed[p]
        /\ "pushRejected" \notin failed[p]
        /\ result[p] = "PushFailed"
        /\ CountOp(p, "push") = 1

\* C15: no failure is swallowed: an invocation in which any step failed (temp-directory
\* allocation and writing or closing a file of the working tree included) returns an
\* error, and the only return with success before the push is the one after a change
\* check that found no changes.
C15_NoFailureSwallowed ==
    \A p \in Procs :
        /\ (Done(p) /\ failed[p] # {}) => result[p] # "ok"
        /\ (result[p] = "ok" /\ "push" \notin OpNames(p)) => Checked(p) /\ ~changed[p]

\* C18: an invocation that reaches the clone works in a directory of its own: no other
\* invocation clones into the directory it cloned into, also when the allocation of
\* the temp directory failed.
C18_OwnWorkingTree ==
    \A p, q \in Procs :
        (p # q /\ Cloned(p) /\ "clone" \in OpNames(q)) => tmpDir[p] # tmpDir[q]

-----------------------------------------------------------------------------
(* Profiles without inline bundles *)

\* p's profile is valid and every declared name resolves to a bundle without the
\* inline marker
AllExternal(p) ==
    /\ ValidProfile(p)
    /\ \A i \in 1..Len(DeclaredNames(p)) :
          /\ Resolves(DeclaredNames(p)[i])
          /\ bundleSecrets[DeclaredNames(p)[i]].bundleType # "inline"

\* where copyManifests puts the base artifacts of p
BaseArtifactPaths(p) ==
    {PathJoin(mgmtPath(p), Tail(ManifestFiles[i])) : i \in 1..Len(ManifestFiles)}

\* the inline-bundle step of p has run
InlineStepDone(p) == "copyInlineBundles" \in OpNames(p) /\ pc[p] # "inline"

\* C17: for a profile with a non-empty declaration whose bundles are all external the
\* collection returns the empty list without error, the inline-bundle step writes
\* nothing (no workload directory, no stub, no templates directory of its own) and
\* cannot fail, and the deploy succeeds publishing the base artifacts only.
C17_AllExternalPublishesBaseOnly ==
    \A p \in Procs :
        (Collected(p) /\ AllExternal(p)) =>
            /\ inlineBundles[p] = <<>>
            /\ result[p] \notin CollectionErrors \cup {"MissingPayload"}
            /\ "inline" \notin failed[p]
            /\ CountOp(p, "getBundle") = Len(DeclaredNames(p))
            /\ InlineStepDone(p) =>
                  /\ RepoOf(p).wt =
                        copyManifests(ClonedTree(p), <<>>, mgmtPath(p), NoFault).wt
                  /\ DOMAIN RepoOf(p).wt = DOMAIN ClonedTree(p) \cup BaseArtifactPaths(p)
            /\ Done(p) => result[p] \in {"ok"} \cup EnvFailures
            /\ result[p] = "ok" =>
                  /\ changed[p]
                  /\ DOMAIN PublishedTree(p) = BaseArtifactPaths(p)

\* the profile declares both bundles, both external; the deploy pushed
C17_Witness ==
    \E p \in Procs :
        /\ AllExternal(p)
        /\ DeclaredNames(p) = <<"a", "b">>
        /\ InlineStepDone(p)
        /\ result[p] = "ok"
        /\ "push" \in OpNames(p)
        /\ DOMAIN remote[Len(remote)] = BaseArtifactPaths(p)

-----------------------------------------------------------------------------
(* Frame and references of the published commit *)

IsUnder(f, dir) == Len(f) >= Len(dir) /\ SubSeq(f, 1, Len(dir)) = dir

\* the paths invocation p writes
WrittenPaths(p) ==
    BaseArtifactPaths(p) \cup
    UNION {{StubFile(p, inlineBundles[p][i].name), BundleFile(p, inlineBundles[p][i].name)} :
              i \in 1..Len(inlineBundles[p])}

\* C19: the commit an invocation pushes differs from the HEAD it cloned only at the
\* paths it writes: no file is deleted, every path outside B/C (another cluster's
\* included) is unchanged, and the stub and payload of a bundle that an earlier deploy
\* published and the profile no longer lists stay as they were.
C19_PushedCommitFrame ==
    \A p \in Procs :
        (result[p] = "ok" /\ changed[p]) =>
            LET old == ClonedTree(p)
                new == PublishedTree(p)
                clusterDir == PathJoin(args[p].basePath, <<args[p].clusterName>>)
            IN  /\ new # old
                /\ DOMAIN old \subseteq DOMAIN new
                /\ \A f \in DOMAIN new \ WrittenPaths(p) : f \in DOMAIN old /\ new[f] = old[f]
                /\ \A f \in DOMAIN old : ~IsUnder(f, clusterDir) => new[f] = old[f]
                /\ \A f \in {StubFile(p, "z"), BundleFile(p, "z")} :
                      f \in DOMAIN old => new[f] = old[f]

\* the cloned branch held another cluster's file and the stub and payload of bundle z,
\* which the profile no longer lists; the invocation published bundle a
C19_Witness ==
    \E p \in Procs :
        /\ result[p] = "ok" /\ changed[p]
        /\ ClonedTree(p) = OldTree
        /\ Len(inlineBundles[p]) > 0
        /\ {StubFile(p, "z"), BundleFile(p, "z")} \subseteq DOMAIN PublishedTree(p)
        /\ <<"base", "c0", "mgmt", "Chart.yaml">> \in DOMAIN PublishedTree(p)
        /\ PublishedTree(p)[StubFile(p, "a")] # <<>>

\* the root descriptor ConstructRootApp builds for the cluster and base path of p
RootAppFor(p) ==
    ConstructRootApp(clusterSpecs, rootArgs.argocdNs, args[p].clusterName,
                     Str(args[p].repoUrl), rootArgs.repoBranch, args[p].basePath,
                     rootArgs.clusterSpecName)

\* C20: in the published commit every stub B/C/mgmt/templates/b.yaml names
\* B/C/workload/b as its source path, and that directory holds b.yaml with b's payload;
\* the source path of the root descriptor for the same base path and cluster is the
\* management path the deploy writes to.
C20_ReferencesResolve ==
    \A p \in Procs :
        result[p] = "ok" =>
            LET tree == PublishedTree(p)
            IN  /\ \A i \in 1..Len(inlineBundles[p]) :
                      LET b == inlineBundles[p][i]
                          dir == PathJoin(workloadPath(p), <<b.name>>)
                          stub == tree[StubFile(p, b.name)]
                      IN  /\ Len(stub) = 1
                          /\ stub[1].path = PathStr(dir)
                          /\ stub[1].name = args[p].clusterName \o "-" \o b.name
                          /\ \E f \in DOMAIN tree : IsUnder(f, dir)
                          /\ PathJoin(dir, <<b.name \o ".yaml">>) \in DOMAIN tree
                          /\ tree[PathJoin(dir, <<b.name \o ".yaml">>)] = b.data.bytes
                /\ ~RootAppFor(p).app.isNil
                /\ RootAppFor(p).app.Path = PathStr(mgmtPath(p))
                /\ \A f \in BaseArtifactPaths(p) :
                      f \in DOMAIN tree /\ IsUnder(f, mgmtPath(p))

\* a deploy to the repository root published bundle a; its stub names c1/workload/a
C20_Witness ==
    \E p \in Procs :
        /\ result[p] = "ok" /\ changed[p]
        /\ args[p].basePath = <<>>
        /\ Len(inlineBundles[p]) > 0
        /\ inlineBundles[p][1].name = "a"
        /\ PublishedTree(p)[StubFile(p, "a")][1].path = "c1/workload/a"
        /\ RootAppFor(p).app.Path = "c1/mgmt"

====
